---- MODULE Spec2Model ----
(***************************************************************************)
(* The two-pass assembler (AssemblyCompiler) and the stack machine         *)
(* (VirtualMachine) of asm_compiler_vm.py.                                 *)
(*                                                                         *)
(* Source text is modelled character by character: a line is a sequence    *)
(* of one-character strings, and parse_line is computed the way the code   *)
(* computes it (comment removal, strip, the label regex, split, upper,     *)
(* isalpha, int).  A Python value that may be None, an int or a str is a   *)
(* tagged record.                                                          *)
(***************************************************************************)
EXTENDS Integers, Sequences, FiniteSets, TLC

VARIABLES
    source,        \* the argument of AssemblyCompiler.compile: a sequence of lines
    labels,        \* AssemblyCompiler.labels
    instructions,  \* AssemblyCompiler.instructions
    ret,           \* how the compile call ended: not called, returned, raised
    program,       \* VirtualMachine.program
    ip,            \* VirtualMachine.ip
    stack,         \* VirtualMachine.stack
    call_stack,    \* VirtualMachine.call_stack
    memory,        \* VirtualMachine.memory (0-indexed in the code, 1-indexed here)
    running,       \* VirtualMachine.running
    runpc,         \* where the host's call of VirtualMachine.run stands
    printed,       \* the values PRINT wrote to stdout since the last load_program
    reported,      \* the "Runtime error: ..." messages run() wrote since the last load_program
    last,          \* the last call on the VM and how it ended
    heap,          \* the contents of the list objects of one assembler and two VMs
    refs           \* their fields: the object each list attribute refers to, and the rest

asmvars == <<source, labels, instructions, ret>>
vmvars == <<program, ip, stack, call_stack, memory, running, runpc, printed, reported, last>>
sharedvars == <<heap, refs>>
vars == <<source, labels, instructions, ret, program, ip, stack, call_stack, memory,
          running, runpc, printed, reported, last, heap, refs>>

(***************************************************************************)
(* Characters and strings.                                                 *)
(***************************************************************************)
Chars(s) == [i \in 1..Len(s) |-> SubSeq(s, i, i)]

Range(f) == {f[i] : i \in DOMAIN f}

LowerSeq == Chars("abcdefghijklmnopqrstuvwxyz")

UpperSeq == Chars("ABCDEFGHIJKLMNOPQRSTUVWXYZ")

DigitSeq == Chars("0123456789")

LowerChars == Range(LowerSeq)

AlphaChars == Range(LowerSeq) \cup Range(UpperSeq)

DigitChars == Range(DigitSeq)

\* \w of the label regex
WordChars == AlphaChars \cup DigitChars \cup {"_"}

\* what str.strip() and str.split() treat as white space
SpaceChars == {" ", "\t"}

IndexOf(seq, c) == CHOOSE i \in DOMAIN seq : seq[i] = c

\* str.upper()
UpperChar(c) == IF c \in LowerChars THEN UpperSeq[IndexOf(LowerSeq, c)] ELSE c

Upper(s) == [i \in DOMAIN s |-> UpperChar(s[i])]

\* the length of the longest prefix of s made of characters of set S
RECURSIVE SpanLen(_, _)
SpanLen(s, S) ==
    IF s = <<>> \/ Head(s) \notin S THEN 0 ELSE 1 + SpanLen(Tail(s), S)

\* the length of the longest prefix of s made of characters outside S
RECURSIVE SpanLenNot(_, _)
SpanLenNot(s, S) ==
    IF s = <<>> \/ Head(s) \in S THEN 0 ELSE 1 + SpanLenNot(Tail(s), S)

Drop(s, n) == SubSeq(s, n + 1, Len(s))

Reverse(s) == [i \in 1..Len(s) |-> s[Len(s) + 1 - i]]

\* re.sub(r';.*$', '', line)
StripComment(line) == SubSeq(line, 1, SpanLenNot(line, {";"}))

LStrip(s) == Drop(s, SpanLen(s, SpaceChars))

\* str.strip()
Strip(s) == Reverse(LStrip(Reverse(LStrip(s))))

\* str.split(): the maximal runs of non-space characters
RECURSIVE Split(_)
Split(s) ==
    LET t == LStrip(s)
        n == SpanLenNot(t, SpaceChars)
    IN  IF t = <<>> THEN <<>> ELSE <<SubSeq(t, 1, n)>> \o Split(Drop(t, n))

\* str.isalpha() of a token
IsAlpha(tok) == tok # <<>> /\ \A i \in DOMAIN tok : tok[i] \in AlphaChars

\* the strings int() accepts: an optional sign, then digits that single
\* underscores may separate
IntBody(tok) == IF tok # <<>> /\ tok[1] \in {"+", "-"} THEN Tail(tok) ELSE tok

IsIntLiteral(tok) ==
    LET b == IntBody(tok)
    IN  /\ b # <<>>
        /\ \A i \in DOMAIN b : b[i] \in DigitChars \cup {"_"}
        /\ b[1] # "_"
        /\ b[Len(b)] # "_"
        /\ \A i \in 1..(Len(b) - 1) : ~(b[i] = "_" /\ b[i + 1] = "_")

RECURSIVE DigitsValue(_, _)
DigitsValue(b, acc) ==
    IF b = <<>> THEN acc
    ELSE IF Head(b) = "_" THEN DigitsValue(Tail(b), acc)
    ELSE DigitsValue(Tail(b), 10 * acc + (IndexOf(DigitSeq, Head(b)) - 1))

\* int(tok) of such a string
IntValue(tok) ==
    IF tok[1] = "-" THEN 0 - DigitsValue(IntBody(tok), 0) ELSE DigitsValue(IntBody(tok), 0)

(***************************************************************************)
(* Python values: None, an int, a str.                                     *)
(***************************************************************************)
None == [t |-> "none"]

IntVal(n) == [t |-> "int", v |-> n]

StrVal(s) == [t |-> "str", s |-> s]

\* a raised exception: its class, the fixed part of its message, and the
\* value the message is formatted with (a sequence, empty when there is none)
Exc(cls, msg, arg) == [cls |-> cls, msg |-> msg, arg |-> arg]

NoExc == [cls |-> "none"]

\* the keys of AssemblyCompiler.instruction_map
Mnemonics ==
    {"PUSH", "POP", "ADD", "SUB", "MUL", "DIV", "STORE", "LOAD", "JMP", "JZ", "JNZ",
     "CALL", "RET", "PRINT", "HALT"}

MnemonicKeys == {Chars(m) : m \in Mnemonics}

\* instruction_map[key]: the Instruction member, written as its name
InstructionOf(key) == CHOOSE m \in Mnemonics : Chars(m) = key

(***************************************************************************)
(* AssemblyCompiler.parse_line                                             *)
(***************************************************************************)
\* LabelMatch for a pattern anchored at the end of the line, (\w+):$
LabelMatchWholeLine(line) ==
    LET n == SpanLen(line, WordChars)
    IN  IF n >= 1 /\ n + 1 = Len(line) /\ line[n + 1] = ":"
        THEN <<SubSeq(line, 1, n)>>
        ELSE <<>>

\* re.match(r'(\w+):', line): group 1 in a one-element sequence, or <<>>
\* when the line does not start with word characters followed by a colon
LabelMatch(line) ==
    LET n == SpanLen(line, WordChars)
    IN  IF n >= 1 /\ n < Len(line) /\ line[n + 1] = ":"
        THEN <<SubSeq(line, 1, n)>>
        ELSE <<>>

\* LabelAddress with the label bound one past the next instruction
LabelAddressOffByOne(instrs) == Len(instrs) + 1

\* the index a label is bound to: len(self.instructions)
LabelAddress(instrs) == Len(instrs)

\* Bind that keeps the address of a name already in the table
BindFirst(lbls, name, address) ==
    [x \in (DOMAIN lbls) \cup {name} |-> IF x \in DOMAIN lbls THEN lbls[x] ELSE address]

\* self.labels[label] = address
Bind(lbls, name, address) ==
    [x \in (DOMAIN lbls) \cup {name} |-> IF x = name THEN address ELSE lbls[x]]

\* InstructionName without the upper(): mnemonics matched case-sensitively
InstructionNameAsWritten(parts) == parts[1]

\* instruction_name = parts[0].upper()
InstructionName(parts) == Upper(parts[1])

\* the operand of an instruction line: None without a second token, the
\* token itself when it is alphabetic, int(token) otherwise, which raises
\* for a token int() does not accept
ParseOperand(parts) ==
    IF Len(parts) > 1
    THEN LET operand_str == parts[2]
         IN  IF IsAlpha(operand_str)
             THEN [operand |-> StrVal(operand_str), exc |-> NoExc]
             ELSE IF IsIntLiteral(operand_str)
                  THEN [operand |-> IntVal(IntValue(operand_str)), exc |-> NoExc]
                  ELSE [operand |-> None,
                        exc |-> Exc("ValueError", "Invalid operand", <<operand_str>>)]
    ELSE [operand |-> None, exc |-> NoExc]

\* parse_line on the assembler state (lbls, instrs): what it returns
\* ("none" for None, "instr" for a tuple, "raise"), and self.labels after it
ParseLine(rawline, lbls, instrs) ==
    LET line == Strip(StripComment(rawline))
        label_match == LabelMatch(line)
        parts == Split(line)
        o == ParseOperand(parts)
        nothing == [op |-> "HALT", operand |-> None]
    IN  IF line = <<>>
        THEN [kind |-> "none", labels |-> lbls, instr |-> nothing, exc |-> NoExc]
        ELSE IF label_match # <<>>
        THEN [kind |-> "none",
              labels |-> Bind(lbls, label_match[1], LabelAddress(instrs)),
              instr |-> nothing, exc |-> NoExc]
        ELSE IF InstructionName(parts) \notin MnemonicKeys
        THEN [kind |-> "raise", labels |-> lbls, instr |-> nothing,
              exc |-> Exc("ValueError", "Unknown instruction", <<InstructionName(parts)>>)]
        ELSE IF o.exc # NoExc
        THEN [kind |-> "raise", labels |-> lbls, instr |-> nothing, exc |-> o.exc]
        ELSE [kind |-> "instr", labels |-> lbls,
              instr |-> [op |-> InstructionOf(InstructionName(parts)), operand |-> o.operand],
              exc |-> NoExc]

(***************************************************************************)
(* AssemblyCompiler.compile.  The assembler state c carries exc, the       *)
(* exception that left the call (NoExc while none was raised).             *)
(***************************************************************************)
NoLabels == [x \in {} |-> 0]

\* CollectLine with the exception of parse_line caught and the line skipped
CollectLineSkipping(c, line) ==
    LET result == ParseLine(line, c.labels, c.instructions)
    IN  IF result.kind = "instr"
        THEN [labels |-> result.labels,
              instructions |-> Append(c.instructions, result.instr), exc |-> NoExc]
        ELSE [labels |-> result.labels, instructions |-> c.instructions, exc |-> NoExc]

\* one iteration of the first pass; an exception raised by parse_line
\* leaves the loop and the call
CollectLine(c, line) ==
    LET result == ParseLine(line, c.labels, c.instructions)
    IN  IF c.exc # NoExc THEN c
        ELSE IF result.kind = "raise"
        THEN [labels |-> result.labels, instructions |-> c.instructions, exc |-> result.exc]
        ELSE IF result.kind = "instr"
        THEN [labels |-> result.labels,
              instructions |-> Append(c.instructions, result.instr), exc |-> NoExc]
        ELSE [labels |-> result.labels, instructions |-> c.instructions, exc |-> NoExc]

RECURSIVE FirstPass(_, _)
FirstPass(lines, c) ==
    IF lines = <<>> THEN c ELSE FirstPass(Tail(lines), CollectLine(c, Head(lines)))

\* ResolveAt that leaves the name of an undeclared label in place
ResolveAtKeeping(c, i) ==
    LET instr == c.instructions[i].op
        operand == c.instructions[i].operand
    IN  IF operand.t = "str" /\ operand.s \in DOMAIN c.labels
        THEN [c EXCEPT !.instructions[i] =
                           [op |-> instr, operand |-> IntVal(c.labels[operand.s])]]
        ELSE c

\* ResolveAt whose error message is formatted with the opcode, not the operand
ResolveAtNamingOpcode(c, i) ==
    LET instr == c.instructions[i].op
        operand == c.instructions[i].operand
    IN  IF c.exc # NoExc THEN c
        ELSE IF operand.t = "str"
        THEN IF operand.s \in DOMAIN c.labels
             THEN [c EXCEPT !.instructions[i] =
                                [op |-> instr, operand |-> IntVal(c.labels[operand.s])]]
             ELSE [c EXCEPT !.exc = Exc("ValueError", "Undefined label", <<Chars(instr)>>)]
        ELSE c

\* one iteration of the second pass, on self.instructions[i] (1-indexed here)
ResolveAt(c, i) ==
    LET instr == c.instructions[i].op
        operand == c.instructions[i].operand
    IN  IF c.exc # NoExc THEN c
        ELSE IF operand.t = "str"
        THEN IF operand.s \in DOMAIN c.labels
             THEN [c EXCEPT !.instructions[i] =
                                [op |-> instr, operand |-> IntVal(c.labels[operand.s])]]
             ELSE [c EXCEPT !.exc = Exc("ValueError", "Undefined label", <<operand.s>>)]
        ELSE c

RECURSIVE SecondPass(_, _)
SecondPass(c, i) ==
    IF i > Len(c.instructions) THEN c ELSE SecondPass(ResolveAt(c, i), i + 1)

\* the whole call: both passes from the state compile resets the assembler to
CompileCall(lines) ==
    SecondPass(FirstPass(lines, [labels |-> NoLabels, instructions |-> <<>>, exc |-> NoExc]), 1)

(***************************************************************************)
(* VirtualMachine.execute_instruction.  m is the machine: program, ip,     *)
(* stack, call_stack, memory.  The top of a stack is the end of its        *)
(* sequence, as in the Python lists.  The result says how the call ended   *)
(* (ret: "True", "False" or "raise"), the machine it leaves, and what it   *)
(* printed.                                                                *)
(***************************************************************************)
Pop(s) == SubSeq(s, 1, Len(s) - 1)

Top(s) == s[Len(s)]

ValueError(msg) == Exc("ValueError", msg, <<>>)

Continue(m) == [m |-> m, ret |-> "True", exc |-> NoExc, out |-> <<>>]

Stop(m) == [m |-> m, ret |-> "False", exc |-> NoExc, out |-> <<>>]

Raise(m, exc) == [m |-> m, ret |-> "raise", exc |-> exc, out |-> <<>>]

Abs(x) == IF x < 0 THEN 0 - x ELSE x

\* FloorDiv rounding toward zero
TruncDiv(a, b) ==
    LET q == Abs(a) \div Abs(b)
    IN  IF (a < 0) = (b < 0) THEN q ELSE 0 - q

\* a // b of Python ints, b # 0: the quotient of the magnitudes, taken one
\* further from zero when the signs differ and the division is inexact
FloorDiv(a, b) ==
    LET q == Abs(a) \div Abs(b)
        r == Abs(a) % Abs(b)
    IN  IF (a < 0) = (b < 0) THEN q
        ELSE IF r = 0 THEN 0 - q
        ELSE 0 - (q + 1)

\* Arith with the operands of SUB taken in the order they are popped
ArithSwapped(instruction, a, b) ==
    CASE instruction = "ADD" -> a + b
      [] instruction = "SUB" -> b - a
      [] instruction = "MUL" -> a * b

\* a + b, a - b, a * b with b the value popped first
Arith(instruction, a, b) ==
    CASE instruction = "ADD" -> a + b
      [] instruction = "SUB" -> a - b
      [] instruction = "MUL" -> a * b

ExecPush(m, operand) ==
    IF operand = None
    THEN Raise(m, ValueError("PUSH instruction requires an operand"))
    ELSE Continue([m EXCEPT !.stack = Append(@, operand.v)])

ExecPop(m) ==
    IF m.stack = <<>>
    THEN Raise(m, ValueError("Stack underflow"))
    ELSE Continue([m EXCEPT !.stack = Pop(@)])

ExecArith(m, instruction) ==
    IF Len(m.stack) < 2
    THEN Raise(m, ValueError("Stack underflow"))
    ELSE LET b == Top(m.stack)
             a == Top(Pop(m.stack))
         IN  Continue([m EXCEPT !.stack = Append(Pop(Pop(@)), Arith(instruction, a, b))])

\* ExecDiv with a zero divisor giving the quotient 0
ExecDivZeroQuotient(m) ==
    IF Len(m.stack) < 2
    THEN Raise(m, ValueError("Stack underflow"))
    ELSE LET b == Top(m.stack)
             a == Top(Pop(m.stack))
         IN  IF b = 0
             THEN Continue([m EXCEPT !.stack = Append(Pop(Pop(@)), 0)])
             ELSE Continue([m EXCEPT !.stack = Append(Pop(Pop(@)), FloorDiv(a, b))])

\* the divisor is popped before it is tested
ExecDiv(m) ==
    IF Len(m.stack) < 2
    THEN Raise(m, ValueError("Stack underflow"))
    ELSE LET b == Top(m.stack)
             a == Top(Pop(m.stack))
         IN  IF b = 0
             THEN Raise([m EXCEPT !.stack = Pop(@)], ValueError("Division by zero"))
             ELSE Continue([m EXCEPT !.stack = Append(Pop(Pop(@)), FloorDiv(a, b))])

\* OutOfBounds taking the last cell for out of bounds as well
OutOfBoundsOffByOne(m, address) == address < 0 \/ address >= Len(m.memory) - 1

\* address < 0 or address >= len(self.memory)
OutOfBounds(m, address) == address < 0 \/ address >= Len(m.memory)

MemoryError(address) == Exc("ValueError", "Memory address out of bounds", <<address>>)

\* ExecStore with only the upper bound tested: a negative address counts
\* from the end of the list
ExecStoreWrapping(m) ==
    IF Len(m.stack) < 2
    THEN Raise(m, ValueError("Stack underflow"))
    ELSE LET value == Top(m.stack)
             address == Top(Pop(m.stack))
             popped == [m EXCEPT !.stack = Pop(Pop(@))]
         IN  IF address >= Len(m.memory) \/ address < 0 - Len(m.memory)
             THEN Raise(popped, MemoryError(address))
             ELSE IF address < 0
             THEN Continue([popped EXCEPT !.memory[Len(m.memory) + address + 1] = value])
             ELSE Continue([popped EXCEPT !.memory[address + 1] = value])

\* ExecStore popping the value before it looks for the address
ExecStorePoppingFirst(m) ==
    IF m.stack = <<>>
    THEN Raise(m, ValueError("Stack underflow"))
    ELSE LET value == Top(m.stack)
             rest == [m EXCEPT !.stack = Pop(@)]
         IN  IF rest.stack = <<>>
             THEN Raise(rest, ValueError("Stack underflow"))
             ELSE LET address == Top(rest.stack)
                      popped == [rest EXCEPT !.stack = Pop(@)]
                  IN  IF address < 0 \/ address >= Len(m.memory)
                      THEN Raise(popped, MemoryError(address))
                      ELSE Continue([popped EXCEPT !.memory[address + 1] = value])

\* value and address are popped before the address is tested
ExecStore(m) ==
    IF Len(m.stack) < 2
    THEN Raise(m, ValueError("Stack underflow"))
    ELSE LET value == Top(m.stack)
             address == Top(Pop(m.stack))
             popped == [m EXCEPT !.stack = Pop(Pop(@))]
         IN  IF OutOfBounds(m, address)
             THEN Raise(popped, MemoryError(address))
             ELSE Continue([popped EXCEPT !.memory[address + 1] = value])

ExecLoad(m) ==
    IF m.stack = <<>>
    THEN Raise(m, ValueError("Stack underflow"))
    ELSE LET address == Top(m.stack)
             popped == [m EXCEPT !.stack = Pop(@)]
         IN  IF OutOfBounds(m, address)
             THEN Raise(popped, MemoryError(address))
             ELSE Continue([popped EXCEPT !.stack = Append(@, m.memory[address + 1])])

\* ExecJmp adding the operand to the ip instead of assigning it
ExecJmpRelative(m, operand) ==
    IF operand = None
    THEN Raise(m, ValueError("JMP instruction requires an operand"))
    ELSE Continue([m EXCEPT !.ip = @ + operand.v])

ExecJmp(m, operand) ==
    IF operand = None
    THEN Raise(m, ValueError("JMP instruction requires an operand"))
    ELSE Continue([m EXCEPT !.ip = operand.v])

\* ExecJz requiring its operand, as JMP does
ExecJzRequiringOperand(m, operand) ==
    IF operand = None
    THEN Raise(m, ValueError("JZ instruction requires an operand"))
    ELSE IF m.stack = <<>>
    THEN Raise(m, ValueError("Stack underflow"))
    ELSE LET value == Top(m.stack)
             popped == [m EXCEPT !.stack = Pop(@)]
         IN  IF value = 0
             THEN Continue([popped EXCEPT !.ip = operand.v])
             ELSE Continue(popped)

ExecJz(m, operand) ==
    IF m.stack = <<>>
    THEN Raise(m, ValueError("Stack underflow"))
    ELSE LET value == Top(m.stack)
             popped == [m EXCEPT !.stack = Pop(@)]
         IN  IF value = 0 /\ operand # None
             THEN Continue([popped EXCEPT !.ip = operand.v])
             ELSE Continue(popped)

ExecJnz(m, operand) ==
    IF m.stack = <<>>
    THEN Raise(m, ValueError("Stack underflow"))
    ELSE LET value == Top(m.stack)
             popped == [m EXCEPT !.stack = Pop(@)]
         IN  IF value # 0 /\ operand # None
             THEN Continue([popped EXCEPT !.ip = operand.v])
             ELSE Continue(popped)

\* m.ip is the already advanced ip
ExecCall(m, operand) ==
    IF operand = None
    THEN Raise(m, ValueError("CALL instruction requires an operand"))
    ELSE Continue([m EXCEPT !.call_stack = Append(@, m.ip), !.ip = operand.v])

\* ExecRet reading the return address without popping it
ExecRetKeeping(m) ==
    IF m.call_stack = <<>>
    THEN Raise(m, ValueError("Call stack underflow"))
    ELSE Continue([m EXCEPT !.ip = Top(m.call_stack)])

ExecRet(m) ==
    IF m.call_stack = <<>>
    THEN Raise(m, ValueError("Call stack underflow"))
    ELSE Continue([m EXCEPT !.ip = Top(m.call_stack), !.call_stack = Pop(@)])

ExecPrint(m) ==
    IF m.stack = <<>>
    THEN Raise(m, ValueError("Stack underflow"))
    ELSE [m |-> [m EXCEPT !.stack = Pop(@)], ret |-> "True", exc |-> NoExc,
          out |-> <<Top(m.stack)>>]

ExecHalt(m) == Stop(m)

\* the if/elif chain, on the machine whose ip is already advanced
Dispatch(m, instruction, operand) ==
    CASE instruction = "PUSH" -> ExecPush(m, operand)
      [] instruction = "POP" -> ExecPop(m)
      [] instruction \in {"ADD", "SUB", "MUL"} -> ExecArith(m, instruction)
      [] instruction = "DIV" -> ExecDiv(m)
      [] instruction = "STORE" -> ExecStore(m)
      [] instruction = "LOAD" -> ExecLoad(m)
      [] instruction = "JMP" -> ExecJmp(m, operand)
      [] instruction = "JZ" -> ExecJz(m, operand)
      [] instruction = "JNZ" -> ExecJnz(m, operand)
      [] instruction = "CALL" -> ExecCall(m, operand)
      [] instruction = "RET" -> ExecRet(m)
      [] instruction = "PRINT" -> ExecPrint(m)
      [] instruction = "HALT" -> ExecHalt(m)

\* self.ip >= len(self.program): nothing is fetched
PastEnd(m) == m.ip >= Len(m.program)

\* self.program[self.ip] of a Python list: a negative index counts from the
\* end, and an index below -len raises IndexError.  The position fetched,
\* 0-based, or -1 when there is none.
FetchIndex(m) ==
    IF m.ip >= 0 THEN m.ip
    ELSE IF m.ip >= 0 - Len(m.program) THEN Len(m.program) + m.ip
    ELSE 0 - 1

ExecuteInstruction(m) ==
    IF PastEnd(m) THEN Stop(m)
    ELSE IF FetchIndex(m) < 0
    THEN Raise(m, Exc("IndexError", "list index out of range", <<>>))
    ELSE LET fetched == m.program[FetchIndex(m) + 1]
         IN  Dispatch([m EXCEPT !.ip = m.ip + 1], fetched.op, fetched.operand)

\* the instruction a call of execute_instruction executes, "none" when it
\* fetches nothing
FetchedOp(m) ==
    IF PastEnd(m) \/ FetchIndex(m) < 0 THEN "none" ELSE m.program[FetchIndex(m) + 1].op

(***************************************************************************)
(* Bounds and inputs.                                                      *)
(***************************************************************************)
\* the longest source text the assembler is given, in lines
MaxLines == 3

\* the operands of the arithmetic programs range over -MaxArg..MaxArg
MaxArg == 7

\* the memory_size the VM is constructed with
MemorySize == 2

\* the machine is followed while its stacks, its values and its output stay
\* within these
MaxStack == 3

MaxCalls == 3

MaxInt == 70

\* the compile calls made on the assembler that the VMs' programs come from
MaxCompiles == 2

MaxPrinted == 3

\* str(n)
RECURSIVE NatToChars(_)
NatToChars(n) ==
    IF n < 10 THEN <<DigitSeq[n + 1]>>
    ELSE NatToChars(n \div 10) \o <<DigitSeq[(n % 10) + 1]>>

IntToChars(n) == IF n < 0 THEN <<"-">> \o NatToChars(0 - n) ELSE NatToChars(n)

\* a source text from its lines
Text(ls) == [i \in DOMAIN ls |-> Chars(ls[i])]

\* the lines the assembler's sources are made of
AsmLines ==
    Range(Text(<<"a:", "b: FOO 1x", "JMP a", "  jz b ; back", "CALL c", "PUSH -7",
                 "PUSH A", "HALT", "foo 1", "PUSH 1x", " ; note", "JNZ  +1_0 2x",
                 "x1:", "JMP x1">>))

AsmSources == UNION {[1..k -> AsmLines] : k \in 1..MaxLines}

\* PUSH a; PUSH b; OP; PRINT; HALT
ArithOps == {"ADD", "SUB", "MUL", "DIV"}

ArgRange == (0 - MaxArg)..MaxArg

ArithSource(a, b, op) ==
    <<Chars("PUSH ") \o IntToChars(a), Chars("PUSH ") \o IntToChars(b), Chars(op),
      Chars("PRINT"), Chars("HALT")>>

ArithSources == {ArithSource(a, b, op) : a \in ArgRange, b \in ArgRange, op \in ArithOps}

\* the a, b and OP a source of ArithSources was written from
ArithInput ==
    [src \in ArithSources |->
        CHOOSE t \in ArgRange \X ArgRange \X ArithOps : ArithSource(t[1], t[2], t[3]) = src]

\* the programs the VM is loaded with: what compile returns for these texts
StoreSource == Text(<<"PUSH 0", "PUSH 5", "STORE", "HALT">>)

ReadBackSource == Text(<<"PUSH 0", "LOAD", "PRINT", "HALT">>)

HaltFirstSource == Text(<<"HALT", "PUSH 1", "PRINT">>)

CallSource == Text(<<"CALL sub", "HALT", "sub: ", "PUSH 9", "PRINT", "RET">>)

DivZeroSource == Text(<<"PUSH 1", "PUSH 0", "DIV", "HALT">>)

UnderflowSource == Text(<<"ADD", "HALT">>)

DivZeroDeepSource == Text(<<"PUSH 4", "PUSH 1", "PUSH 0", "DIV", "PRINT", "HALT">>)

LoopSource == Text(<<"loop: ; forever", "JMP loop">>)

CycleSource == Text(<<"again:", "PUSH 1", "POP", "JMP again">>)

NestedCallSource ==
    Text(<<"CALL f", "HALT", "f:", "CALL g", "RET", "g:", "PUSH 9", "PRINT", "RET">>)

\* a jump to a label declared after the last instruction
EndLabelSource == Text(<<"JMP end", "PUSH 1", "end:">>)

\* a jump to -1 reaches the CALL on the last line
NegativeCallSource == Text(<<"JMP -1", "sub:", "HALT", "CALL sub">>)

\* a jump to -1 reaches the JZ on the last line
NegativeBranchSource == Text(<<"PUSH 1", "JMP -1", "HALT", "JZ 3">>)

\* each opcode that pops, on an empty stack and, when it pops two, on a
\* stack of one zero
PopsOne == {"POP", "LOAD", "JZ 0", "JNZ 0", "PRINT", "JZ", "JNZ"}

PopsTwo == {"ADD", "SUB", "MUL", "DIV", "STORE"}

UnderflowSources ==
    {Text(<<op, "HALT">>) : op \in PopsOne \cup PopsTwo}
        \cup {Text(<<"PUSH 0", op, "HALT">>) : op \in PopsTwo}

\* STORE and LOAD at the addresses around both ends of the memory
EdgeAddresses == {0 - 1, 0, MemorySize - 1, MemorySize, MemorySize + 1}

MemorySources ==
    {<<Chars("PUSH ") \o IntToChars(a), Chars("PUSH 5"), Chars("STORE"), Chars("HALT")>> :
        a \in EdgeAddresses}
        \cup {<<Chars("PUSH ") \o IntToChars(a), Chars("LOAD"), Chars("PRINT"), Chars("HALT")>> :
                 a \in EdgeAddresses}

\* conditional branches on a zero and on a non-zero value, with and without
\* an operand
BranchSources ==
    {<<Chars("PUSH ") \o IntToChars(v), Chars(br), Chars("PUSH 1"), Chars("t:"), Chars("HALT")>> :
        v \in {0, 1}, br \in {"JZ t", "JNZ t", "JZ", "JNZ"}}

\* jumps and calls to integer addresses far outside the program
FarSources ==
    {Text(<<op, "HALT">>) : op \in {"JMP 9", "JMP -9", "CALL 9", "CALL -9"}}

MissingOperandSources == {Text(<<op, "HALT">>) : op \in {"PUSH", "JMP", "CALL"}}

CoreSources ==
    {StoreSource, ReadBackSource, HaltFirstSource, CallSource, DivZeroSource,
     UnderflowSource, DivZeroDeepSource, LoopSource, CycleSource, NestedCallSource,
     NegativeCallSource, NegativeBranchSource, EndLabelSource,
     Text(<<"PUSH 1", "PUSH 7", "STORE", "PUSH 1", "LOAD", "PRINT">>),
     Text(<<"JMP skip", "PUSH 1", "skip:", "PUSH 2", "PRINT", "HALT">>),
     Text(<<"again:", "PUSH 1", "JMP again">>),
     Text(<<"PUSH 2", "down:", "PUSH -1", "ADD", "PUSH 0", "LOAD", "JNZ down", "HALT">>),
     Text(<<"RET", "HALT">>),
     Text(<<"PUSH 3", "PRINT">>)}
        \cup UnderflowSources \cup MemorySources \cup BranchSources
        \cup MissingOperandSources \cup FarSources

Compiled(src) == CompileCall(src).instructions

Programs == {Compiled(src) : src \in CoreSources}

(***************************************************************************)
(* The state machine.                                                      *)
(***************************************************************************)
VM == [program |-> program, ip |-> ip, stack |-> stack, call_stack |-> call_stack,
       memory |-> memory]

NotCalled == [kind |-> "not called"]

Nothing == [call |-> "none", op |-> "none", at |-> 0 - 1, ret |-> "none", exc |-> NoExc]

\* AssemblyCompiler.__init__
InitAssembler ==
    /\ labels = NoLabels
    /\ instructions = <<>>
    /\ ret = NotCalled

\* VirtualMachine.__init__
InitVM ==
    /\ program = <<>>
    /\ ip = 0
    /\ stack = <<>>
    /\ call_stack = <<>>
    /\ memory = [i \in 1..MemorySize |-> 0]
    /\ running = FALSE
    /\ runpc = "idle"
    /\ printed = <<>>
    /\ reported = <<>>
    /\ last = Nothing

\* compile(source), once on a fresh assembler
Compile ==
    /\ ret = NotCalled
    /\ LET c == CompileCall(source)
       IN  /\ labels' = c.labels
           /\ instructions' = c.instructions
           /\ ret' = IF c.exc = NoExc
                     THEN [kind |-> "return", value |-> c.instructions]
                     ELSE [kind |-> "raise", exc |-> c.exc]
    /\ UNCHANGED <<source, vmvars, sharedvars>>

\* Loaded with the memory zero-filled as well
LoadedClearingMemory(m, p) ==
    [m EXCEPT !.program = p, !.ip = 0, !.stack = <<>>, !.call_stack = <<>>,
              !.memory = [i \in DOMAIN m.memory |-> 0]]

\* load_program: the fields it assigns
Loaded(m, p) == [m EXCEPT !.program = p, !.ip = 0, !.stack = <<>>, !.call_stack = <<>>]

LoadProgram(p) ==
    /\ runpc = "idle"
    /\ LET m == Loaded(VM, p)
       IN  /\ program' = m.program
           /\ ip' = m.ip
           /\ stack' = m.stack
           /\ call_stack' = m.call_stack
           /\ memory' = m.memory
    /\ printed' = <<>>
    /\ reported' = <<>>
    /\ last' = [Nothing EXCEPT !.call = "load"]
    /\ UNCHANGED <<running, runpc, asmvars, sharedvars>>

WithinBounds(m, out) ==
    /\ Len(m.stack) <= MaxStack
    /\ Len(m.call_stack) <= MaxCalls
    /\ \A i \in DOMAIN m.stack : Abs(m.stack[i]) <= MaxInt
    /\ Len(out) <= MaxPrinted

\* one call of execute_instruction and what it leaves
Execute(call) ==
    LET r == ExecuteInstruction(VM)
    IN  /\ WithinBounds(r.m, printed \o r.out)
        /\ ip' = r.m.ip
        /\ stack' = r.m.stack
        /\ call_stack' = r.m.call_stack
        /\ memory' = r.m.memory
        /\ printed' = printed \o r.out
        /\ last' = [call |-> call, op |-> FetchedOp(VM),
                    at |-> IF FetchedOp(VM) = "none" THEN 0 - 1 ELSE FetchIndex(VM),
                    ret |-> r.ret, exc |-> r.exc]
        /\ UNCHANGED <<program, asmvars, sharedvars>>

\* the host calls execute_instruction itself; an exception reaches the host
Step ==
    /\ runpc = "idle"
    /\ Execute("step")
    /\ UNCHANGED <<running, runpc, reported>>

\* run(): self.running = True
RunBegin ==
    /\ runpc = "idle"
    /\ running' = TRUE
    /\ runpc' = "loop"
    /\ UNCHANGED <<program, ip, stack, call_stack, memory, printed, reported, last, asmvars, sharedvars>>

\* RunNext with the exception caught inside the loop, which goes on
RunNextSwallowing(outcome) ==
    CASE outcome = "True" -> "loop"
      [] outcome = "False" -> "exit"
      [] outcome = "raise" -> "loop"

\* RunNext leaving the loop after one instruction
RunNextOnce(outcome) ==
    CASE outcome = "True" -> "exit"
      [] outcome = "False" -> "exit"
      [] outcome = "raise" -> "except"

\* where run() goes after a call of execute_instruction: on in the loop,
\* out of it, or into the except clause
RunNext(outcome) ==
    CASE outcome = "True" -> "loop"
      [] outcome = "False" -> "exit"
      [] outcome = "raise" -> "except"

\* one evaluation of the while condition
RunLoop ==
    /\ runpc = "loop"
    /\ IF running
       THEN /\ Execute("run")
            /\ runpc' = RunNext(last'.ret)
       ELSE /\ runpc' = "exit"
            /\ UNCHANGED <<program, ip, stack, call_stack, memory, printed, last, asmvars, sharedvars>>
    /\ UNCHANGED <<running, reported>>

\* except Exception as e: print(f"Runtime error: {e}")
RunExcept ==
    /\ runpc = "except"
    /\ Len(reported) < MaxPrinted
    /\ reported' = Append(reported, last.exc)
    /\ runpc' = "exit"
    /\ UNCHANGED <<program, ip, stack, call_stack, memory, running, printed, last, asmvars, sharedvars>>

\* self.running = False, and run() returns
RunReturn ==
    /\ runpc = "exit"
    /\ running' = FALSE
    /\ runpc' = "idle"
    /\ last' = [last EXCEPT !.call = "run returned"]
    /\ UNCHANGED <<program, ip, stack, call_stack, memory, printed, reported, asmvars, sharedvars>>

(***************************************************************************)
(* One AssemblyCompiler and two VirtualMachines, with their lists as       *)
(* objects: an attribute holds a reference, two attributes may hold the    *)
(* same one, and a list changed in place is changed for every holder.      *)
(* heap.lists[k] is the k-th list that compile created; heap.objects holds *)
(* the lists the VMs create for themselves.  A list that nothing refers to *)
(* any more gives its place to the one that replaces it.                   *)
(***************************************************************************)
VMs == {"A", "B"}

Other(v) == IF v = "A" THEN "B" ELSE "A"

\* self.stack = [] and self.call_stack = []: lists of the instance
StackObject(v) == <<v, "stack">>

CallStackObject(v) == <<v, "call_stack">>

\* MemoryObject with one list for all instances, as a class attribute is
MemoryObjectOfClass(v) == <<"A", "memory">>

\* self.memory = [0] * memory_size: a list of the instance
MemoryObject(v) == <<v, "memory">>

Objects == {<<v, f>> : v \in VMs, f \in {"stack", "call_stack", "memory"}}

\* reference 0 is the empty list an instance starts with
ListAt(k) == IF k = 0 THEN <<>> ELSE heap.lists[k]

\* AssemblyCompiler.__init__ and VirtualMachine.__init__, twice
InitObjects ==
    /\ heap = [lists |-> <<>>,
               objects |-> [o \in Objects |->
                               IF o[2] = "memory" THEN [i \in 1..MemorySize |-> 0]
                               ELSE <<>>]]
    /\ refs = [asm |-> [instructions |-> 0, labels |-> NoLabels],
               held |-> {},
               vm |-> [v \in VMs |-> [program |-> 0, ip |-> 0, running |-> FALSE,
                                       runpc |-> "idle"]]]

\* the machine of instance v, read through its references
Deref(v) ==
    [program |-> ListAt(refs.vm[v].program),
     ip |-> refs.vm[v].ip,
     stack |-> heap.objects[StackObject(v)],
     call_stack |-> heap.objects[CallStackObject(v)],
     memory |-> heap.objects[MemoryObject(v)]]

\* the lists after instance v was left as machine m
Written(v, m) ==
    [lists |-> IF refs.vm[v].program = 0 THEN heap.lists
               ELSE [heap.lists EXCEPT ![refs.vm[v].program] = m.program],
     objects |-> [heap.objects EXCEPT ![StackObject(v)] = m.stack,
                                      ![CallStackObject(v)] = m.call_stack,
                                      ![MemoryObject(v)] = m.memory]]

\* InstructionsObject emptying the list in place instead of making a new one
InstructionsObjectCleared(asm, lists) ==
    IF asm.instructions = 0 THEN Len(lists) + 1 ELSE asm.instructions

\* self.instructions = []: a list that did not exist before
InstructionsObject(asm, lists) == Len(lists) + 1

\* compile(src) on the one assembler; the host holds what it returns
SharedCompile(src) ==
    /\ Len(heap.lists) < MaxCompiles
    /\ LET c == CompileCall(src)
           k == InstructionsObject(refs.asm, heap.lists)
       IN  /\ heap' = [heap EXCEPT !.lists = IF k > Len(@) THEN Append(@, c.instructions)
                                              ELSE [@ EXCEPT ![k] = c.instructions]]
           /\ refs' = [refs EXCEPT !.asm = [instructions |-> k, labels |-> c.labels],
                                   !.held = IF c.exc = NoExc THEN @ \cup {k} ELSE @]
    /\ UNCHANGED <<asmvars, vmvars>>

\* v.load_program(p), p a Program the host holds
SharedLoad(v, k) ==
    /\ k \in refs.held
    /\ refs.vm[v].runpc = "idle"
    /\ LET m == Loaded(Deref(v), ListAt(k))
       IN  /\ heap' = [heap EXCEPT !.objects = [@ EXCEPT ![StackObject(v)] = m.stack,
                                                        ![CallStackObject(v)] = m.call_stack,
                                                        ![MemoryObject(v)] = m.memory]]
           /\ refs' = [refs EXCEPT !.vm[v].program = k, !.vm[v].ip = m.ip]
    /\ UNCHANGED <<asmvars, vmvars>>

\* one call of v.execute_instruction, the call going on at pc[its outcome]
SharedExecute(v, pc) ==
    LET r == ExecuteInstruction(Deref(v))
    IN  /\ WithinBounds(r.m, <<>>)
        /\ heap' = Written(v, r.m)
        /\ refs' = [refs EXCEPT !.vm[v].ip = r.m.ip, !.vm[v].runpc = pc[r.ret]]
        /\ UNCHANGED <<asmvars, vmvars>>

SharedStep(v) ==
    /\ refs.vm[v].runpc = "idle"
    /\ SharedExecute(v, [o \in {"True", "False", "raise"} |-> "idle"])

SharedRunBegin(v) ==
    /\ refs.vm[v].runpc = "idle"
    /\ refs' = [refs EXCEPT !.vm[v].running = TRUE, !.vm[v].runpc = "loop"]
    /\ UNCHANGED <<heap, asmvars, vmvars>>

SharedRunLoop(v) ==
    /\ refs.vm[v].runpc = "loop"
    /\ IF refs.vm[v].running
       THEN SharedExecute(v, [o \in {"True", "False", "raise"} |-> RunNext(o)])
       ELSE /\ refs' = [refs EXCEPT !.vm[v].runpc = "exit"]
            /\ UNCHANGED <<heap, asmvars, vmvars>>

SharedRunExcept(v) ==
    /\ refs.vm[v].runpc = "except"
    /\ refs' = [refs EXCEPT !.vm[v].runpc = "exit"]
    /\ UNCHANGED <<heap, asmvars, vmvars>>

SharedRunReturn(v) ==
    /\ refs.vm[v].runpc = "exit"
    /\ refs' = [refs EXCEPT !.vm[v].running = FALSE, !.vm[v].runpc = "idle"]
    /\ UNCHANGED <<heap, asmvars, vmvars>>

\* the assembler alone: one compile of a source text
InitAsm == source \in AsmSources /\ InitAssembler /\ InitVM /\ InitObjects

NextAsm == Compile

SpecAsm == InitAsm /\ [][NextAsm]_vars

\* the VM alone, loaded with compiled programs and driven by its host
Init == source = <<>> /\ InitAssembler /\ InitVM /\ InitObjects

Next ==
    \/ \E p \in Programs : LoadProgram(p)
    \/ Step
    \/ RunBegin
    \/ RunLoop
    \/ RunExcept
    \/ RunReturn

Spec == Init /\ [][Next]_vars

\* LanguageModel.compile_and_run on a fresh LanguageModel: compile, load, run
LoadCompiled == ret.kind = "return" /\ last.call = "none" /\ LoadProgram(ret.value)

RunLoaded == last.call = "load" /\ RunBegin

InitCompileAndRun == source \in ArithSources /\ InitAssembler /\ InitVM /\ InitObjects

NextCompileAndRun ==
    \/ Compile
    \/ LoadCompiled
    \/ RunLoaded
    \/ RunLoop
    \/ RunExcept
    \/ RunReturn

SpecCompileAndRun == InitCompileAndRun /\ [][NextCompileAndRun]_vars

\* one assembler and two VMs, driven by one host or by several threads
FailingSource == Text(<<"PUSH 1", "JMP nowhere">>)

SharedSources == {StoreSource, CycleSource, DivZeroSource, FailingSource}

InitShared == source = <<>> /\ InitAssembler /\ InitVM /\ InitObjects

NextShared ==
    \/ \E src \in SharedSources : SharedCompile(src)
    \/ \E v \in VMs :
          \/ \E k \in refs.held : SharedLoad(v, k)
          \/ SharedStep(v)
          \/ SharedRunBegin(v)
          \/ SharedRunLoop(v)
          \/ SharedRunExcept(v)
          \/ SharedRunReturn(v)

SpecShared == InitShared /\ [][NextShared]_vars

\* run() on a program whose branches and calls all go forward, loaded into
\* a VM whose memory earlier programs may have written.  The programs are
\* no longer than MaxCalls, which is also MaxStack at most, so that no run
\* is cut short by the bounds.
Instr(op, operand) == [op |-> op, operand |-> operand]

\* the instructions that may stand at 0-based index i of a program of n
ForwardAt(i, n) ==
    {Instr("PUSH", IntVal(0)), Instr("LOAD", None), Instr("RET", None), Instr("HALT", None)}
        \cup {Instr(op, IntVal(t)) : op \in {"JMP", "JZ", "JNZ", "CALL"}, t \in (i + 1)..n}

ForwardPrograms ==
    UNION {{p \in [1..n -> ForwardAt(0, n)] : \A i \in 1..n : p[i] \in ForwardAt(i - 1, n)} :
              n \in 1..MaxCalls}

ForwardMemories == {[i \in 1..MemorySize |-> IF i = 1 THEN v ELSE 0] : v \in {0, 1}}

InitForward ==
    /\ source = <<>>
    /\ InitAssembler
    /\ InitObjects
    /\ program = <<>>
    /\ ip = 0
    /\ stack = <<>>
    /\ call_stack = <<>>
    /\ memory \in ForwardMemories
    /\ running = FALSE
    /\ runpc = "idle"
    /\ printed = <<>>
    /\ reported = <<>>
    /\ last = Nothing

LoadForward == last.call = "none" /\ \E p \in ForwardPrograms : LoadProgram(p)

NextForward ==
    \/ LoadForward
    \/ RunLoaded
    \/ RunLoop
    \/ RunExcept
    \/ RunReturn

\* run() is a loop in one thread: once called, it goes on until it returns
SpecForward ==
    /\ InitForward
    /\ [][NextForward]_vars
    /\ WF_vars(RunLoop)
    /\ WF_vars(RunExcept)
    /\ WF_vars(RunReturn)

(***************************************************************************)
(* What a source text says, line by line, read off the text itself.        *)
(***************************************************************************)
Clean(line) == Strip(StripComment(line))

Tokens(line) == Split(Clean(line))

IsLabelLine(line) == LabelMatch(Clean(line)) # <<>>

DeclaredBy(line) == LabelMatch(Clean(line))[1]

IsInstructionLine(line) == Clean(line) # <<>> /\ ~IsLabelLine(line)

KnownMnemonic(line) == Upper(Tokens(line)[1]) \in MnemonicKeys

ValidOperandToken(line) ==
    Len(Tokens(line)) < 2 \/ IsAlpha(Tokens(line)[2]) \/ IsIntLiteral(Tokens(line)[2])

WellFormed(line) == IsInstructionLine(line) => (KnownMnemonic(line) /\ ValidOperandToken(line))

AllWellFormed(src) == \A j \in DOMAIN src : WellFormed(src[j])

\* an instruction line whose operand is an alphabetic name
HasReference(line) ==
    /\ IsInstructionLine(line)
    /\ KnownMnemonic(line)
    /\ Len(Tokens(line)) >= 2
    /\ IsAlpha(Tokens(line)[2])

Referenced(line) == Tokens(line)[2]

DeclaredNames(src) == {DeclaredBy(src[k]) : k \in {d \in DOMAIN src : IsLabelLine(src[d])}}

Declarations(src, name) == {d \in DOMAIN src : IsLabelLine(src[d]) /\ DeclaredBy(src[d]) = name}

LastDeclaration(src, name) ==
    CHOOSE d \in Declarations(src, name) : \A e \in Declarations(src, name) : e <= d

InstructionLinesBefore(src, j) ==
    Cardinality({k \in 1..(j - 1) : IsInstructionLine(src[k])})

Undeclared(src) ==
    {j \in DOMAIN src : HasReference(src[j]) /\ Referenced(src[j]) \notin DeclaredNames(src)}

FirstUndeclared(src) == CHOOSE j \in Undeclared(src) : \A k \in Undeclared(src) : j <= k

\* the instruction compile returned for instruction line j
Emitted(j) == ret.value[InstructionLinesBefore(source, j) + 1]

\* parse_line returned an instruction for line j: the assembler's list holds it
Accepted(j) == Len(instructions) > InstructionLinesBefore(source, j)

(***************************************************************************)
(* The assembler's claims, under SpecAsm.                                  *)
(***************************************************************************)
\* C1: whenever compile returns a Program, every instruction in it has an
\* operand that is absent or an integer; none holds a pending label name.
C1_NoPendingLabel ==
    ret.kind = "return" =>
        \A i \in DOMAIN ret.value : ret.value[i].operand.t \in {"none", "int"}

\* a Program was returned for a source with a label reference in it
C1_Witness ==
    /\ ret.kind = "return"
    /\ \E j \in DOMAIN source : HasReference(source[j])
    /\ \E i \in DOMAIN ret.value : ret.value[i].operand.t = "int"

\* C2 as stated: for every source whose label references are all declared,
\* compile succeeds and every operand that referenced label L equals the
\* number of instruction lines that precede a declaration of L.
C2_AsStated ==
    (ret # NotCalled /\ Undeclared(source) = {}) =>
        /\ ret.kind = "return"
        /\ \A j \in DOMAIN source :
              HasReference(source[j]) =>
                  \E d \in Declarations(source, Referenced(source[j])) :
                      Emitted(j).operand = IntVal(InstructionLinesBefore(source, d))

\* C2 amended: for every source whose instruction lines all have a known
\* mnemonic and a valid operand token and whose label references are all
\* declared, before or after the reference, compile succeeds and every
\* operand that referenced label L equals the number of instruction lines
\* that precede the last declaration of L (len(program) when that
\* declaration is the last thing in the source).
C2_LabelIndex ==
    (ret # NotCalled /\ AllWellFormed(source) /\ Undeclared(source) = {}) =>
        /\ ret.kind = "return"
        /\ \A j \in DOMAIN source :
              HasReference(source[j]) =>
                  Emitted(j).operand =
                      IntVal(InstructionLinesBefore(source,
                                 LastDeclaration(source, Referenced(source[j]))))

\* a forward reference to a label declared on the last line, after two
\* instructions, resolved to len(program)
C2_Witness ==
    /\ ret.kind = "return"
    /\ Len(source) = MaxLines
    /\ HasReference(source[1])
    /\ IsInstructionLine(source[Len(source) - 1])
    /\ Declarations(source, Referenced(source[1])) = {Len(source)}
    /\ ret.value[1].operand = IntVal(Len(ret.value))
    /\ Len(ret.value) = Len(source) - 1

\* C3: if any line has an unknown mnemonic or an invalid operand token, or
\* any instruction references an undeclared label, compile raises and
\* returns nothing, whatever valid lines precede or follow.
C3_Atomic ==
    (ret # NotCalled /\ (~AllWellFormed(source) \/ Undeclared(source) # {})) =>
        ret.kind = "raise"

\* compile raised on a line that stands between two accepted instruction
\* lines, with the assembler holding the instructions collected before it
C3_Witness ==
    /\ ret.kind = "raise"
    /\ Len(source) >= 3
    /\ WellFormed(source[1]) /\ IsInstructionLine(source[1])
    /\ ~WellFormed(source[2])
    /\ WellFormed(source[3]) /\ IsInstructionLine(source[3])
    /\ Len(instructions) = 1

\* C4 as stated: a source in which some instruction's operand is an
\* alphabetic name declared nowhere fails with "Undefined label" naming that
\* symbol.
C4_AsStated ==
    ret # NotCalled =>
        \A j \in Undeclared(source) :
            /\ ret.kind = "raise"
            /\ ret.exc = Exc("ValueError", "Undefined label", <<Referenced(source[j])>>)

\* C4 amended: such a source fails and returns no Program, for any opcode
\* carrying the reference and any position of it; when every instruction
\* line has a known mnemonic and a valid operand token, the error is
\* "Undefined label" and names the first undeclared symbol in source order.
C4_UndefinedLabel ==
    (ret # NotCalled /\ Undeclared(source) # {}) =>
        /\ ret.kind = "raise"
        /\ AllWellFormed(source) =>
              ret.exc = Exc("ValueError", "Undefined label",
                            <<Referenced(source[FirstUndeclared(source)])>>)

\* two undeclared names referenced after a declared one: the error names
\* the first of the two
C4_Witness ==
    /\ ret.kind = "raise"
    /\ ret.exc.msg = "Undefined label"
    /\ Cardinality(Undeclared(source)) >= 2
    /\ FirstUndeclared(source) > 1
    /\ \E j \in Undeclared(source) : ret.exc.arg # <<Referenced(source[j])>>

\* C5 as stated: an instruction line (reached by the first pass) is
\* accepted if and only if its first token is, case-insensitively, one of
\* the mnemonics; otherwise compile fails with "Unknown instruction" naming
\* the token.
C5_AsStated ==
    ret # NotCalled =>
        \A j \in DOMAIN source :
            (IsInstructionLine(source[j]) /\ \A k \in 1..(j - 1) : WellFormed(source[k])) =>
                /\ Accepted(j) <=> KnownMnemonic(source[j])
                /\ ~KnownMnemonic(source[j]) =>
                      /\ ret.kind = "raise"
                      /\ ret.exc = Exc("ValueError", "Unknown instruction",
                                       <<Tokens(source[j])[1]>>)

\* C5 amended: an instruction line reached by the first pass is accepted if
\* and only if its first token is, case-insensitively, one of the 15
\* mnemonics and its second token, if any, is alphabetic or an integer; when
\* the first token is no mnemonic, compile fails with "Unknown instruction"
\* naming the token in upper case, and no Program is returned.
C5_Mnemonic ==
    ret # NotCalled =>
        \A j \in DOMAIN source :
            (IsInstructionLine(source[j]) /\ \A k \in 1..(j - 1) : WellFormed(source[k])) =>
                /\ Accepted(j) <=> (KnownMnemonic(source[j]) /\ ValidOperandToken(source[j]))
                /\ ~KnownMnemonic(source[j]) =>
                      /\ ret.kind = "raise"
                      /\ ret.exc = Exc("ValueError", "Unknown instruction",
                                       <<Upper(Tokens(source[j])[1])>>)

\* a lower-case mnemonic was accepted, and a later lower-case token that is
\* no mnemonic was rejected under its upper-case form
C5_Witness ==
    /\ ret.kind = "raise"
    /\ ret.exc = Exc("ValueError", "Unknown instruction", <<Chars("FOO")>>)
    /\ \E i \in DOMAIN instructions : instructions[i].op = "JZ"
    /\ \E j \in DOMAIN source :
          IsInstructionLine(source[j]) /\ Tokens(source[j])[1] = Chars("foo")

(***************************************************************************)
(* The VM's claims.                                                        *)
(***************************************************************************)
\* execution has stopped: the last call of execute_instruction returned
\* False (HALT, or ip at or past the end) or raised
Ended == last.ret \in {"False", "raise"}

\* C6: once execution has ended by HALT, by ip running past the end or by a
\* fault, every further step or run made without a load in between executes
\* nothing: ip, operand stack, call stack and memory stay as they are.
C6_TerminalUntilLoad ==
    [][(Ended /\ last'.call # "load") => UNCHANGED <<ip, stack, call_stack, memory>>]_vars

\* C7: a fault inside run() ends that run: from the faulting instruction on
\* nothing is executed, the except clause reports the exception, and run()
\* returns to its caller with running false.
C7_FaultEndsRun ==
    [][(last.call = "run" /\ last.ret = "raise") =>
          /\ UNCHANGED <<program, ip, stack, call_stack, memory, printed>>
          /\ \/ /\ runpc = "except"
                /\ runpc' = "exit"
                /\ reported' = Append(reported, last.exc)
             \/ /\ runpc = "exit"
                /\ runpc' = "idle"
                /\ ~running'
                /\ last'.call = "run returned"]_vars

\* run() has returned after a division by zero, with the HALT that follows
\* the DIV not executed
C7_Witness ==
    /\ last.call = "run returned"
    /\ last.ret = "raise"
    /\ last.op = "DIV"
    /\ program = Compiled(DivZeroSource)
    /\ ip = 3
    /\ reported = <<ValueError("Division by zero")>>
    /\ ~running
    /\ runpc = "idle"

\* C8: load_program, in whatever state the host calls it, sets ip to 0 and
\* empties both stacks while every memory cell keeps its value.
C8_LoadKeepsMemory ==
    [][last'.call = "load" =>
          /\ ip' = 0
          /\ stack' = <<>>
          /\ call_stack' = <<>>
          /\ memory' = memory]_vars

\* the program that loads address 0 and prints it has printed the 5 that an
\* earlier program stored there
C8_Witness ==
    /\ program = Compiled(ReadBackSource)
    /\ printed = <<5>>
    /\ memory[1] = 5
    /\ last.op = "PRINT"

\* C9: compiling and running PUSH a; PUSH b; OP; PRINT; HALT with OP one of
\* ADD, SUB, MUL prints exactly one value, a+b, a-b or a*b, reports no
\* error and ends with an empty operand stack.
C9_Arithmetic ==
    (last.call = "run returned" /\ ArithInput[source][3] \in {"ADD", "SUB", "MUL"}) =>
        LET a == ArithInput[source][1]
            b == ArithInput[source][2]
            op == ArithInput[source][3]
        IN  /\ printed = <<IF op = "ADD" THEN a + b ELSE IF op = "SUB" THEN a - b ELSE a * b>>
            /\ reported = <<>>
            /\ stack = <<>>
            /\ last.op = "HALT"

\* PUSH 2; PUSH 3; SUB; PRINT; HALT has run and printed -1
C9_Witness ==
    /\ source = ArithSource(2, 3, "SUB")
    /\ last.call = "run returned"
    /\ printed = <<0 - 1>>
    /\ stack = <<>>

\* C10: DIV with a below b on the stack, b # 0, leaves the floor of a / b:
\* the q with q*b <= a < (q+1)*b for b > 0 and q*b >= a > (q+1)*b for b < 0;
\* 7 / 2 gives 3 and -7 / 2 gives -4.
C10_FloorDivision ==
    (last.op = "DIV" /\ last.ret = "True") =>
        LET a == ArithInput[source][1]
            b == ArithInput[source][2]
            q == Top(stack)
        IN  /\ b # 0
            /\ stack = <<q>>
            /\ b > 0 => (q * b <= a /\ a < (q + 1) * b)
            /\ b < 0 => (q * b >= a /\ a > (q + 1) * b)
            /\ (a = 7 /\ b = 2) => q = 3
            /\ (a = 0 - 7 /\ b = 2) => q = 0 - 4

\* PUSH -7; PUSH 2; DIV; PRINT; HALT has run and printed -4
C10_Witness ==
    /\ source = ArithSource(0 - 7, 2, "DIV")
    /\ last.call = "run returned"
    /\ printed = <<0 - 4>>

(***************************************************************************)
(* Single instructions.  The properties below speak of one call of         *)
(* execute_instruction: the state before it, and the state it leaves.      *)
(***************************************************************************)
\* this step is a call of execute_instruction, made by the host itself or
\* by the loop of run()
Executing ==
    \/ runpc = "idle" /\ runpc' = "idle" /\ last'.call = "step"
    \/ runpc = "loop" /\ running

\* the call fetches an instruction with this opcode
Fetching(op) == Executing /\ FetchedOp(VM) = op

\* the operand of the instruction the call fetches, None when it has none
FetchedOperand ==
    IF FetchedOp(VM) = "none" THEN None ELSE program[FetchIndex(VM) + 1].operand

IsPrefix(s, t) == Len(s) <= Len(t) /\ s = SubSeq(t, 1, Len(s))

StackUnderflow == ValueError("Stack underflow")

DivisionByZero == ValueError("Division by zero")

\* C11: a DIV executed with at least two items on the stack and a zero on top
\* raises "Division by zero" and pushes nothing; when the call was made by
\* run(), nothing else is executed in that run: the error is reported, the
\* machine is left as the DIV left it, and run() returns with running False.
C11_DivisionByZero ==
    [][/\ (Fetching("DIV") /\ Len(stack) >= 2 /\ Top(stack) = 0)
            => /\ last'.ret = "raise"
               /\ last'.exc = DivisionByZero
               /\ IsPrefix(stack', stack)
               /\ UNCHANGED <<memory, call_stack, printed>>
               /\ (runpc = "loop" => runpc' = "except")
       /\ (last.call = "run" /\ last.op = "DIV" /\ last.exc = DivisionByZero)
            => /\ UNCHANGED <<ip, stack, call_stack, memory, printed>>
               /\ \/ runpc = "except" /\ runpc' = "exit" /\ reported' = Append(reported, DivisionByZero)
                  \/ /\ runpc = "exit" /\ runpc' = "idle" /\ ~running'
                     /\ last'.call = "run returned"]_vars

\* run() has returned from PUSH 4; PUSH 1; PUSH 0; DIV; PRINT; HALT: the
\* dividend is still on the stack, nothing was printed
C11_Witness ==
    /\ program = Compiled(DivZeroDeepSource)
    /\ last.call = "run returned"
    /\ last.op = "DIV"
    /\ last.exc = DivisionByZero
    /\ stack = <<4, 1>>
    /\ printed = <<>>
    /\ reported = <<DivisionByZero>>
    /\ ~running

\* the number of stack items an opcode pops
Consumes(op) ==
    IF op \in {"POP", "LOAD", "JZ", "JNZ", "PRINT"} THEN 1
    ELSE IF op \in {"ADD", "SUB", "MUL", "DIV", "STORE"} THEN 2
    ELSE 0

\* C12: an instruction executed on a stack shorter than the number of items
\* it pops raises "Stack underflow" and leaves the operand stack, the memory,
\* the call stack and the output as they were; this holds whatever the items
\* present are, a zero under DIV and a bad address under STORE included.
C12_Underflow ==
    [][(Executing /\ Len(stack) < Consumes(FetchedOp(VM)))
            => /\ last'.ret = "raise"
               /\ last'.exc = StackUnderflow
               /\ UNCHANGED <<stack, memory, call_stack, printed>>]_vars

\* PUSH 0; DIV has raised the underflow, not the division by zero, and the
\* zero is still on the stack
C12_Witness ==
    /\ program = Compiled(Text(<<"PUSH 0", "DIV", "HALT">>))
    /\ last.op = "DIV"
    /\ last.exc = StackUnderflow
    /\ stack = <<0>>
    /\ printed = <<>>

\* the address is a cell of the memory
InMemory(address) == 0 <= address /\ address < Len(memory)

\* C13: STORE with two items or more takes the item below the top as the
\* address and the top as the value, LOAD with one item or more takes the
\* top as the address.  With the address in [0, memory size) STORE writes
\* that one cell and LOAD pushes that cell's value, both going on; with any
\* other address, negative or not, they raise "Memory address out of bounds"
\* naming the address, and no cell is written and no value pushed.
C13_MemoryBounds ==
    [][/\ (Fetching("STORE") /\ Len(stack) >= 2)
            => LET value == stack[Len(stack)]
                   address == stack[Len(stack) - 1]
               IN  IF InMemory(address)
                   THEN /\ last'.ret = "True"
                        /\ memory' = [memory EXCEPT ![address + 1] = value]
                   ELSE /\ last'.ret = "raise"
                        /\ last'.exc = MemoryError(address)
                        /\ memory' = memory
       /\ (Fetching("LOAD") /\ Len(stack) >= 1)
            => LET address == stack[Len(stack)]
               IN  IF InMemory(address)
                   THEN /\ last'.ret = "True"
                        /\ stack' = Append(Pop(stack), memory[address + 1])
                        /\ memory' = memory
                   ELSE /\ last'.ret = "raise"
                        /\ last'.exc = MemoryError(address)
                        /\ IsPrefix(stack', stack)
                        /\ memory' = memory]_vars

\* LOAD at address -1 has raised although the last cell holds a 5 stored
\* before: the negative address did not wrap around
C13_Witness ==
    /\ memory[MemorySize] = 5
    /\ last.op = "LOAD"
    /\ last.exc = MemoryError(0 - 1)
    /\ stack = <<>>
    /\ printed = <<>>

CallStackUnderflow == ValueError("Call stack underflow")

\* C14: a CALL fetched at program index i pushes i + 1 on the call stack and
\* sets ip to its operand; a RET pops the call stack into ip, the last entry
\* pushed first, and raises "Call stack underflow" when the call stack is
\* empty.
C14_CallReturn ==
    [][/\ (Fetching("CALL") /\ FetchedOperand # None)
            => /\ last'.ret = "True"
               /\ call_stack' = Append(call_stack, FetchIndex(VM) + 1)
               /\ ip' = FetchedOperand.v
       /\ Fetching("RET")
            => IF call_stack = <<>>
               THEN last'.ret = "raise" /\ last'.exc = CallStackUnderflow
               ELSE /\ last'.ret = "True"
                    /\ ip' = Top(call_stack)
                    /\ call_stack' = Pop(call_stack)]_vars

\* the branch about to be executed has an operand and jumps: a JMP, a JZ on
\* a zero, a JNZ on a non-zero
Taken ==
    /\ FetchedOp(VM) \in {"JMP", "JZ", "JNZ"}
    /\ FetchedOperand # None
    /\ \/ FetchedOp(VM) = "JMP"
       \/ FetchedOp(VM) = "JZ" /\ stack # <<>> /\ Top(stack) = 0
       \/ FetchedOp(VM) = "JNZ" /\ stack # <<>> /\ Top(stack) # 0

\* it has an operand and falls through: a JZ on a non-zero, a JNZ on a zero
NotTaken ==
    /\ FetchedOperand # None
    /\ \/ FetchedOp(VM) = "JZ" /\ stack # <<>> /\ Top(stack) # 0
       \/ FetchedOp(VM) = "JNZ" /\ stack # <<>> /\ Top(stack) = 0

\* C15: a taken branch with operand n leaves ip = n and the instruction
\* executed next is the one at program index n; a conditional branch not
\* taken leaves ip at the index of the branch plus one; JZ and JNZ executed
\* on a non-empty stack pop exactly one value.
C15_AbsoluteBranch ==
    [][/\ (Executing /\ Taken) => last'.ret = "True" /\ ip' = FetchedOperand.v
       /\ (Executing /\ NotTaken) => last'.ret = "True" /\ ip' = FetchIndex(VM) + 1
       /\ (Executing /\ FetchedOp(VM) \in {"JZ", "JNZ"} /\ stack # <<>>)
            => stack' = Pop(stack)
       /\ (/\ Executing
           /\ FetchedOp(VM) # "none"
           /\ last.call \in {"step", "run"}
           /\ last.op \in {"JMP", "JZ", "JNZ"}
           /\ last.ret = "True")
            => last'.at = ip]_vars

MissingOperand(op) == ValueError(op \o " instruction requires an operand")

\* C16: a PUSH, JMP, JZ, JNZ or CALL executed without an operand raises the
\* missing-operand error of its opcode.
C16_MissingOperand ==
    [][(/\ Executing
        /\ FetchedOp(VM) \in {"PUSH", "JMP", "JZ", "JNZ", "CALL"}
        /\ FetchedOperand = None)
            => /\ last'.ret = "raise"
               /\ last'.exc = MissingOperand(FetchedOp(VM))]_vars

\* C20: a JZ or JNZ without an operand, executed on a non-empty stack, pops
\* exactly one value and goes on at the next instruction without raising,
\* whatever the value; on an empty stack it raises "Stack underflow".
C20_OperandNotEnforced ==
    [][(Executing /\ FetchedOp(VM) \in {"JZ", "JNZ"} /\ FetchedOperand = None)
            => IF stack # <<>>
               THEN /\ last'.ret = "True"
                    /\ stack' = Pop(stack)
                    /\ ip' = ip + 1
                    /\ UNCHANGED <<memory, call_stack, printed>>
               ELSE /\ last'.ret = "raise"
                    /\ last'.exc = StackUnderflow]_vars

\* PUSH 0; JZ; PUSH 1: the JZ without operand popped the zero and the PUSH 1
\* after it was executed next
C20_Witness ==
    /\ program = Compiled(Text(<<"PUSH 0", "JZ", "PUSH 1", "t:", "HALT">>))
    /\ last.op = "PUSH"
    /\ last.at = 2
    /\ last.ret = "True"
    /\ stack = <<1>>

\* programs that are one cycle of instructions none of which halts, raises
\* or lets a stack grow
Cycles == {Compiled(LoopSource), Compiled(CycleSource)}

\* C17: run() on a program that is a cycle without HALT and without fault
\* never returns: in every state of the call the machine is in the loop of
\* run() with running True, and the next instruction can be executed.
C17_NoStepBudget ==
    (program \in Cycles /\ runpc # "idle")
        => runpc = "loop" /\ running /\ ENABLED RunLoop

\* run() has gone once round again: PUSH 1; POP; JMP again and is still in
\* its loop
C17_Witness ==
    /\ program = Compiled(CycleSource)
    /\ runpc = "loop"
    /\ last.call = "run"
    /\ last.op = "JMP"
    /\ ip = 0
    /\ stack = <<>>

(***************************************************************************)
(* Shared objects.                                                         *)
(***************************************************************************)
\* what the claim calls the state of an instance
View(v) ==
    [ip |-> refs.vm[v].ip,
     stack |-> heap.objects[StackObject(v)],
     call_stack |-> heap.objects[CallStackObject(v)],
     memory |-> heap.objects[MemoryObject(v)]]

\* this step is a load, a step or a step of run() on instance v
OnVM(v) ==
    \/ \E k \in refs.held : SharedLoad(v, k)
    \/ SharedStep(v)
    \/ SharedRunBegin(v)
    \/ SharedRunLoop(v)
    \/ SharedRunExcept(v)
    \/ SharedRunReturn(v)

\* C18: whatever the interleaving of loads, steps and runs on two VMs, and
\* whether or not they hold the same Program object, an operation on one
\* instance leaves the ip, the operand stack, the call stack and the memory
\* of the other as they were.
C18_Isolated ==
    [][\A v \in VMs : OnVM(v) => View(Other(v))' = View(Other(v))]_vars

\* A and B hold the same Program object, PUSH 0; PUSH 5; STORE; HALT; A has
\* executed the STORE, B stands before it with its memory still zero
C18_Witness ==
    /\ refs.vm["A"].program # 0
    /\ refs.vm["A"].program = refs.vm["B"].program
    /\ ListAt(refs.vm["A"].program) = Compiled(StoreSource)
    /\ refs.vm["A"].ip = 3
    /\ View("A").memory[1] = 5
    /\ refs.vm["B"].ip = 2
    /\ View("B").stack = <<0, 5>>
    /\ View("B").memory[1] = 0

\* C19: the list a compile call returned keeps its instructions through
\* every load, step and run on a VM holding it and through every later
\* compile call, successful or failing, on the assembler it came from.
C19_Immutable ==
    [][\A k \in refs.held : heap'.lists[k] = heap.lists[k]]_vars

\* the first compile returned PUSH 0; PUSH 5; STORE; HALT, a VM holding it
\* has executed it to the HALT, a second compile on the same assembler has
\* failed since, and the list is still what was returned
C19_Witness ==
    /\ refs.held = {1}
    /\ Len(heap.lists) = 2
    /\ refs.asm.instructions = 2
    /\ heap.lists[1] = Compiled(StoreSource)
    /\ refs.vm["A"].program = 1
    /\ refs.vm["A"].ip = 4
    /\ View("A").memory[1] = 5

(***************************************************************************)
(* More of the assembler, under SpecAsm.                                   *)
(***************************************************************************)
\* the position of the colon of a line that, comment removed and trimmed,
\* begins with letters, digits and underscores followed by a colon; 0 for
\* any other line
ColonAt(line) ==
    LET c == Clean(line)
        at == {n \in 2..Len(c) : c[n] = ":" /\ \A i \in 1..(n - 1) : c[i] \in WordChars}
    IN  IF at = {} THEN 0 ELSE CHOOSE n \in at : TRUE

BeginsWithLabel(line) == ColonAt(line) > 0

NameBeforeColon(line) == SubSeq(Clean(line), 1, ColonAt(line) - 1)

\* the lines that are neither empty nor begin with a label
PlainLines(src) == {j \in DOMAIN src : Clean(src[j]) # <<>> /\ ~BeginsWithLabel(src[j])}

\* C21: a line that begins with a label emits nothing and binds the label
\* to the count of instructions emitted so far, whatever follows the colon.
\* A returned Program has as many instructions as the source has lines that
\* are neither empty nor label lines; every label line seen is in the label
\* table; and when compile raises Unknown instruction or Invalid operand,
\* the line it stopped at is not a label line.
C21_LabelLine ==
    ret # NotCalled =>
        /\ ret.kind = "return" =>
              /\ Len(ret.value) = Cardinality(PlainLines(source))
              /\ \A d \in DOMAIN source :
                    BeginsWithLabel(source[d]) =>
                        /\ NameBeforeColon(source[d]) \in DOMAIN labels
                        /\ \E e \in d..Len(source) :
                              /\ BeginsWithLabel(source[e])
                              /\ NameBeforeColon(source[e]) = NameBeforeColon(source[d])
                              /\ labels[NameBeforeColon(source[d])] =
                                     Cardinality({j \in PlainLines(source) : j < e})
        /\ (ret.kind = "raise" /\ ret.exc.msg \in {"Unknown instruction", "Invalid operand"}) =>
              \E j \in PlainLines(source) :
                  /\ Cardinality({k \in PlainLines(source) : k < j}) = Len(instructions)
                  /\ ~(KnownMnemonic(source[j]) /\ ValidOperandToken(source[j]))

\* compile returned a Program of one instruction for a source with a label
\* line that has text after the colon: the text was neither emitted nor
\* rejected, and the label is bound
C21_Witness ==
    /\ ret.kind = "return"
    /\ Len(source) = MaxLines
    /\ \E d \in DOMAIN source :
          /\ BeginsWithLabel(source[d])
          /\ Len(Clean(source[d])) > ColonAt(source[d])
          /\ NameBeforeColon(source[d]) \in DOMAIN labels
    /\ Len(ret.value) = 1

(***************************************************************************)
(* More of the machine, under Spec.                                        *)
(***************************************************************************)
\* C22: the memory has the length given at construction and is all zero
\* then; a STORE that succeeds changes the cell at its address, the item
\* below the top, to its value and no other cell; every other step, whether
\* another opcode, an instruction that raises, a load, or a step of run(),
\* leaves the memory as it was.
C22_MemoryFrame ==
    /\ memory = [i \in 1..MemorySize |-> 0]
    /\ [][/\ DOMAIN memory' = 1..MemorySize
          /\ IF Fetching("STORE") /\ last'.ret = "True"
             THEN LET value == stack[Len(stack)]
                      address == stack[Len(stack) - 1]
                  IN  /\ address + 1 \in DOMAIN memory
                      /\ memory' = [i \in DOMAIN memory |->
                                       IF i = address + 1 THEN value ELSE memory[i]]
             ELSE memory' = memory]_vars

\* a STORE has just written 5 to the last cell, the only cell that is not 0
C22_Witness ==
    /\ last.op = "STORE"
    /\ last.ret = "True"
    /\ memory = [i \in 1..MemorySize |-> IF i = MemorySize THEN 5 ELSE 0]
    /\ stack = <<>>

\* every JMP, JZ, JNZ and CALL of the source that has an operand has an
\* alphabetic one, a label reference
LabelOnly(src) ==
    \A j \in DOMAIN src :
        (/\ IsInstructionLine(src[j])
         /\ Upper(Tokens(src[j])[1]) \in {Chars("JMP"), Chars("JZ"), Chars("JNZ"), Chars("CALL")}
         /\ Len(Tokens(src[j])) >= 2)
            => IsAlpha(Tokens(src[j])[2])

LabelPrograms ==
    {Compiled(src) : src \in {t \in CoreSources : LabelOnly(t) /\ CompileCall(t).exc = NoExc}}

\* C23: while the VM holds a Program compiled from a source whose branch and
\* call operands are all label references, ip is in 0..len(program) and
\* every entry of the call stack is in 1..len(program).
C23_AddressesInRange ==
    program \in LabelPrograms =>
        /\ 0 <= ip /\ ip <= Len(program)
        /\ \A i \in DOMAIN call_stack : 1 <= call_stack[i] /\ call_stack[i] <= Len(program)

\* JMP end, with end declared after the last instruction, has left ip at
\* len(program)
C23_Witness ==
    /\ program = Compiled(EndLabelSource)
    /\ program \in LabelPrograms
    /\ last.op = "JMP"
    /\ last.ret = "True"
    /\ ip = Len(program)

\* C24: after a JMP, JZ, JNZ or CALL has left ip outside [0, len(program)),
\* negative or at or past the end, the next call of execute_instruction
\* fetches nothing, returns False and leaves the operand stack, the call
\* stack and the memory as they were.
C24_FetchInRange ==
    [][(/\ Executing
        /\ last.call \in {"step", "run"}
        /\ last.op \in {"JMP", "JZ", "JNZ", "CALL"}
        /\ last.ret = "True"
        /\ (ip < 0 \/ ip >= Len(program)))
            => /\ last'.op = "none"
               /\ last'.ret = "False"
               /\ UNCHANGED <<stack, call_stack, memory>>]_vars

\* C25: run() on a loaded program whose JMP, JZ, JNZ and CALL operands are
\* all greater than the index of their instruction returns, whatever the
\* memory holds and wherever the RETs are.
C25_ForwardTerminates == (runpc # "idle") ~> (runpc = "idle" /\ ~running)

\* run() has returned from CALL 2; HALT; RET, where the RET went back to
\* the HALT
C25_Witness ==
    /\ program = <<Instr("CALL", IntVal(2)), Instr("HALT", None), Instr("RET", None)>>
    /\ last.call = "run returned"
    /\ last.op = "HALT"
    /\ last.at = 1
    /\ ip = 2
    /\ call_stack = <<>>
    /\ ~running

(***************************************************************************)
(* Labels declared twice, and labels with digits, under SpecAsm.           *)
(***************************************************************************)
\* the names a source declares more than once
Duplicated(src) == {name \in DeclaredNames(src) : Cardinality(Declarations(src, name)) >= 2}

\* C26: a label declared more than once is no error.  compile on a source
\* with such a label returns unless an instruction line is malformed or a
\* reference is undeclared, which are the errors of any source, and in the
\* Program every reference to the label, wherever it stands, holds the
\* index bound by the last of its declarations.
C26_DuplicateLabels ==
    (ret # NotCalled /\ Duplicated(source) # {}) =>
        /\ ret.kind = "return" <=> (AllWellFormed(source) /\ Undeclared(source) = {})
        /\ ret.kind = "return" =>
              \A j \in DOMAIN source :
                  (HasReference(source[j]) /\ Referenced(source[j]) \in Duplicated(source)) =>
                      Emitted(j).operand =
                          IntVal(InstructionLinesBefore(source,
                                     LastDeclaration(source, Referenced(source[j]))))

\* a label declared on the first and on the last line and referenced in
\* between: the reference holds the index of the second declaration, not 0
C26_Witness ==
    /\ ret.kind = "return"
    /\ Len(source) = MaxLines
    /\ IsLabelLine(source[1])
    /\ Declarations(source, DeclaredBy(source[1])) = {1, Len(source)}
    /\ \E j \in 2..(Len(source) - 1) :
          /\ HasReference(source[j])
          /\ Referenced(source[j]) = DeclaredBy(source[1])
          /\ Emitted(j).operand = IntVal(Len(ret.value))
    /\ Len(ret.value) >= 1

\* line j is JMP with the name that line d declares as its operand
JumpsTo(src, j, d) ==
    /\ IsLabelLine(src[d])
    /\ IsInstructionLine(src[j])
    /\ Len(Tokens(src[j])) >= 2
    /\ Upper(Tokens(src[j])[1]) = Chars("JMP")
    /\ Tokens(src[j])[2] = DeclaredBy(src[d])

\* C27: every label that can be declared can be referenced.  In a source
\* whose other lines are well formed and whose references are declared, a
\* JMP L with L declared by a label line compiles, and its operand is the
\* index L is bound to.
C27_DeclaredIsReferable ==
    ret # NotCalled =>
        \A d, j \in DOMAIN source :
            (/\ JumpsTo(source, j, d)
             /\ \A k \in DOMAIN source :
                   (\E e \in DOMAIN source : JumpsTo(source, k, e)) \/ WellFormed(source[k])
             /\ Undeclared(source) = {})
                => /\ ret.kind = "return"
                   /\ Emitted(j).operand = IntVal(labels[DeclaredBy(source[d])])

====
